---- MODULE Spec2Model ----
(***************************************************************************)
(* A model of homeassistant/remote.py: the EventForwarder (targets, lock,  *)
(* bus listener, replay of events to the registered targets), the          *)
(* remote-backed EventBus and StateMachine and the API binding; and of the *)
(* ThreadPool and ensure_unique_string of homeassistant/util.py.           *)
(*                                                                         *)
(* Spec        the EventForwarder under concurrent connect / disconnect /  *)
(*             publish, with the listener running on worker threads.       *)
(* SpecLink    connect / disconnect together with connect_remote_events.   *)
(* SpecRemote  the remote-backed hub: EventBus.fire, StateMachine.set,     *)
(*             StateMachine.mirror and the state-changed listener.         *)
(* SpecApi     the binding: API.validate_api, HomeAssistant.__init__ and   *)
(*             the functions that make one call through the binding.       *)
(* SpecPool    the ThreadPool: add_job by one producer, the priority       *)
(*             queue and the worker threads.                               *)
(* SpecPoolFair  SpecPool with every worker thread scheduled again and     *)
(*             again and the job handler returning.                        *)
(* SpecUnique  one call of util.ensure_unique_string, step by step.        *)
(***************************************************************************)
EXTENDS Integers, Sequences, FiniteSets, Bags, TLC

(***************************************************************************)
(* Bounds of the model.                                                    *)
(***************************************************************************)
NumThreads == 2
MaxEvents == 1
MaxCalls == 1
MaxOps == 4
MaxWorkers == 2
MaxJobs == 3
MaxTries == 4

Threads == 1..NumThreads

(***************************************************************************)
(* Program constants.                                                      *)
(***************************************************************************)
SERVER_PORT == 8123
NoPort == 0

EVENT_TIME_CHANGED == "time_changed"
EVENT_STATE_CHANGED == "state_changed"

OriginLocal == "LOCAL"
OriginRemote == "REMOTE"
NoOrigin == "None"

EventTypes == {EVENT_TIME_CHANGED, EVENT_STATE_CHANGED}
Origins == {OriginLocal, OriginRemote}

(***************************************************************************)
(* API.__init__: the port defaults to SERVER_PORT when none is given.      *)
(***************************************************************************)
MkAPI(host, api_password, port) ==
    [host |-> host,
     port |-> IF port = NoPort THEN SERVER_PORT ELSE port,
     api_password |-> api_password]

NoApi == [host |-> "", port |-> NoPort, api_password |-> ""]

\* The bindings the callers use: the first two name the same (host, port),
\* one through the default port, with different passwords.
APIs ==
    {MkAPI("h1", "x", NoPort), MkAPI("h1", "y", SERVER_PORT), MkAPI("h2", "x", NoPort)}

VARIABLES
    targets,          \* EventForwarder._targets, as the set of its (key, api) items
    lock,             \* EventForwarder._lock: 0 when free, else the holding thread
    restrict_origin,  \* EventForwarder.restrict_origin
    listeners,        \* the local bus's listeners registered for MATCH_ALL, in order
    jobs,             \* listener invocations queued in the worker pool: <<event, index>>
    events,           \* the events published so far, with what was true at publish
    wire,             \* the bag of wire calls issued
    pc,               \* each thread's position
    argApi,           \* each thread's api argument of connect / disconnect
    argEv,            \* each thread's event argument of _event_listener
    sent,             \* each thread's targets already replayed to in this broadcast
    snap,             \* each thread's view of targets when it took the lock (history)
    didRemove,        \* each thread's local did_remove of disconnect
    emptied,          \* a disconnect left the target set empty, no connect since (history)
    last,             \* the last connect or disconnect that returned (history)
    \* the remote-backed hub
    cache,            \* remote StateMachine._states: entity -> state
    subscribed,       \* _state_changed_listener is registered for EVENT_STATE_CHANGED
    hpc,              \* the position of the thread that constructs the hub and mirrors
    resp,             \* the response to GET /api/states that mirror is working on
    rjobs,            \* _state_changed_listener invocations queued in the worker pool
    fired,            \* the events passed to the remote EventBus.fire so far (history)
    dispatched,       \* the bag of events dispatched to the local listeners (history)
    nSet,             \* the number of StateMachine.set calls so far (history)
    lastSet,          \* the outcome of the last set call's wire write (history)
    mirrored,         \* the response the cache was last mirrored from and the
                      \* entities cached before, until an event is applied or the
                      \* next mirror starts (history)
    newest,           \* per entity, the state carried by the state-changed event
                      \* that arrived since the last bulk read was made (history)
    \* the remote binding and the calls made through it
    status,           \* API.status of the remote binding
    built,            \* the parts HomeAssistant.__init__ has created
    lastCall,         \* the last call made through the binding and its result (history)
    nApi,             \* the number of calls made through the binding (history)
    \* the ThreadPool
    worker_count,     \* the number of worker threads
    busy_callback,    \* the busy callback given to the constructor, or None
    work_queue,       \* the PriorityQueue's heap of PriorityQueueItems
    busy_warning_limit, \* ThreadPool.busy_warning_limit
    current_jobs,     \* the shared list of running jobs
    wpc,              \* each worker's position in _threadpool_worker
    wjob,             \* each worker's local job
    ppc,              \* the producer's position in add_job
    submitted,        \* the priorities of the jobs given to add_job, in order (history)
    taken,            \* the jobs in the order work_queue.get returned them (history)
    busy,             \* the times add_job found the queue too big: the depth it
                      \* checked and the depth it reported (history)
    \* one call of ensure_unique_string
    upc,              \* the position in ensure_unique_string
    preferred_string, \* the argument preferred_string
    current_strings,  \* the argument current_strings
    string,           \* the local string
    tries,            \* the local tries
    returned          \* the value returned, once the call has returned

fwdVars == <<targets, lock, restrict_origin, listeners, jobs, events, wire,
             pc, argApi, argEv, sent, snap, didRemove, emptied, last>>

remVars == <<cache, subscribed, hpc, resp, rjobs, fired, dispatched, nSet,
             lastSet, mirrored, newest>>

apiVars == <<status, built, lastCall, nApi>>

poolVars == <<worker_count, busy_callback, work_queue, busy_warning_limit,
              current_jobs, wpc, wjob, ppc, submitted, taken, busy>>

uniqueVars == <<upc, preferred_string, current_strings, string, tries, returned>>

vars == <<fwdVars, remVars, apiVars, poolVars, uniqueVars>>

(***************************************************************************)
(* Helpers: Python dict and list operations, the wire.                     *)
(***************************************************************************)
KeyWithPassword(api) == <<api.host, api.port, api.api_password>>

\* key = (api.host, api.port)
Key(api) == <<api.host, api.port>>

\* d[key] = value on a dict held as its set of (key, value) items
DictSet(d, key, value) == {it \in d : it[1] # key} \cup {<<key, value>>}

\* d.pop(key, None): the dict afterwards
DictPop(d, key) == {it \in d : it[1] # key}

\* d.pop(key, None): the value returned, NoApi standing for None
DictPopValue(d, key) ==
    IF \E it \in d : it[1] = key THEN (CHOOSE it \in d : it[1] = key)[2] ELSE NoApi

RECURSIVE RemoveFirst(_, _)
\* list.remove(x): drops the first occurrence of x
RemoveFirst(s, x) ==
    IF s = <<>> THEN <<>>
    ELSE IF Head(s) = x THEN Tail(s)
    ELSE <<Head(s)>> \o RemoveFirst(Tail(s), x)

\* bus.listen(MATCH_ALL, listener)
BusListen(ls, l) == Append(ls, l)

\* bus.remove_listener(MATCH_ALL, listener): no effect when l is not registered
BusRemoveListener(ls, l) == RemoveFirst(ls, l)

\* bus.fire: one worker-pool job per registered listener
BusFireJobs(ls, e) == {<<e, i>> : i \in 1..Len(ls)}

FwdListener == "EventForwarder._event_listener"

NoData == [host |-> "", port |-> NoPort, api_password |-> "", ev |-> 0,
           entity_id |-> "", new_state |-> "", METHOD |-> ""]

\* API.__call__: the binding's password is written into the data, then the
\* request goes to the binding's base url
ApiCall(api, method, path, data) ==
    [to |-> api, method |-> method, path |-> path,
     data |-> [data EXCEPT !.api_password = api.api_password]]

\* fire_event(api, event_type, event_data): POST /api/events/<event_type>
FireEventCall(api, e) ==
    ApiCall(api, "post", "/api/events/{}", [NoData EXCEPT !.ev = e])

\* connect_remote_events(from_api, to_api): POST /api/event_forwarding to from_api
ConnectRemoteEventsCall(from_api, to_api) ==
    ApiCall(from_api, "post", "/api/event_forwarding",
            [NoData EXCEPT !.host = to_api.host,
                           !.api_password = to_api.api_password,
                           !.port = to_api.port])

Issue(w, call) == w (+) SetToBag({call})

\* the number of wire calls in w that satisfy P
CountCalls(w, P(_)) ==
    LET S == {c \in BagToSet(w) : P(c)} IN
    IF S = {} THEN 0 ELSE BagCardinality([c \in S |-> w[c]])

ReplayCalls(e) == {c \in BagToSet(wire) : c.path = "/api/events/{}" /\ c.data.ev = e}
RegistrationCalls == {c \in BagToSet(wire) : c.path = "/api/event_forwarding"}

(***************************************************************************)
(* The EventForwarder.                                                     *)
(***************************************************************************)
Truthy(x) == x # NoOrigin

ShouldSkipNoTruthTest(ev) ==
    \/ ev.type = EVENT_TIME_CHANGED
    \/ ev.origin # restrict_origin

\* _event_listener's early return: time events and, if enabled, events of the
\* other origin are not forwarded
ShouldSkip(ev) ==
    \/ ev.type = EVENT_TIME_CHANGED
    \/ (Truthy(restrict_origin) /\ ev.origin # restrict_origin)

LockFreeAlways == TRUE

\* with self._lock: the lock can be taken when no thread holds it
LockFree == lock = 0

InConnect(t) == pc[t] \in {"c_listen", "c_store"}
InDisconnect(t) == pc[t] \in {"d_pop", "d_unlisten"}
InListener(t) == pc[t] \in {"l_skip", "l_iter", "l_release"}

\* an event whose listener invocation is queued or running
Active(e) ==
    \/ \E j \in jobs : j[1] = e
    \/ \E t \in Threads : InListener(t) /\ argEv[t] = e

\* a connect or disconnect starts: it runs concurrently with every active event
Disturb(evs) ==
    [e \in DOMAIN evs |-> IF Active(e) THEN [evs[e] EXCEPT !.stable = FALSE] ELSE evs[e]]

FwdInit ==
    /\ targets = {}
    /\ lock = 0
    /\ restrict_origin \in {NoOrigin, OriginLocal, OriginRemote}
    /\ listeners = <<>>
    /\ jobs = {}
    /\ events = <<>>
    /\ wire = EmptyBag
    /\ pc = [t \in Threads |-> "idle"]
    /\ argApi = [t \in Threads |-> NoApi]
    /\ argEv = [t \in Threads |-> 0]
    /\ sent = [t \in Threads |-> {}]
    /\ snap = [t \in Threads |-> {}]
    /\ didRemove = [t \in Threads |-> FALSE]
    /\ emptied = FALSE
    /\ last = [op |-> "none", had |-> FALSE, ret |-> FALSE]

\* ---- connect(api) ----
\* the call, up to the point where it holds the lock
CallConnect(t, api) ==
    /\ pc[t] = "idle"
    /\ LockFree
    /\ lock' = t
    /\ pc' = [pc EXCEPT ![t] = "c_listen"]
    /\ argApi' = [argApi EXCEPT ![t] = api]
    /\ events' = Disturb(events)
    /\ emptied' = FALSE
    /\ UNCHANGED <<targets, restrict_origin, listeners, jobs, wire, argEv, sent, snap, didRemove, last,
                   remVars, apiVars, poolVars, uniqueVars>>

ConnListenersAlways(ls, d) == BusListen(ls, FwdListener)

\* if len(self._targets) == 0: self.hass.bus.listen(MATCH_ALL, self._event_listener)
ConnListeners(ls, d) ==
    IF Cardinality(d) = 0 THEN BusListen(ls, FwdListener) ELSE ls

ConnListen(t) ==
    /\ pc[t] = "c_listen"
    /\ listeners' = ConnListeners(listeners, targets)
    /\ pc' = [pc EXCEPT ![t] = "c_store"]
    /\ UNCHANGED <<targets, lock, restrict_origin, jobs, events, wire,
                   argApi, argEv, sent, snap, emptied, didRemove, last,
                   remVars, apiVars, poolVars, uniqueVars>>

\* self._targets[key] = api
ConnStoreTargets(d, api) == DictSet(d, Key(api), api)

ConnWireRegisters(w, api) == Issue(w, ConnectRemoteEventsCall(api, api))

\* the wire calls connect issues: none
ConnWire(w, api) == w

\* the store, and the end of the with block
ConnStore(t) ==
    /\ pc[t] = "c_store"
    /\ targets' = ConnStoreTargets(targets, argApi[t])
    /\ wire' = ConnWire(wire, argApi[t])
    /\ lock' = 0
    /\ pc' = [pc EXCEPT ![t] = "idle"]
    /\ argApi' = [argApi EXCEPT ![t] = NoApi]
    /\ last' = [op |-> "connect",
                had |-> \E it \in targets : it[2].host = argApi[t].host
                                             /\ it[2].port = argApi[t].port,
                ret |-> FALSE]
    /\ UNCHANGED <<restrict_origin, listeners, jobs, events,
                   argEv, sent, snap, emptied, didRemove,
                   remVars, apiVars, poolVars, uniqueVars>>

\* ---- disconnect(api) ----
CallDisconnect(t, api) ==
    /\ pc[t] = "idle"
    /\ LockFree
    /\ lock' = t
    /\ pc' = [pc EXCEPT ![t] = "d_pop"]
    /\ argApi' = [argApi EXCEPT ![t] = api]
    /\ events' = Disturb(events)
    /\ UNCHANGED <<targets, restrict_origin, listeners, jobs, wire,
                   argEv, sent, snap, emptied, didRemove, last,
                   remVars, apiVars, poolVars, uniqueVars>>

\* did_remove = self._targets.pop(key, None) is None
DidRemove(d, key) == DictPopValue(d, key) = NoApi

DiscPop(t) ==
    /\ pc[t] = "d_pop"
    /\ targets' = DictPop(targets, Key(argApi[t]))
    /\ didRemove' = [didRemove EXCEPT ![t] = DidRemove(targets, Key(argApi[t]))]
    /\ snap' = [snap EXCEPT ![t] = targets]
    /\ pc' = [pc EXCEPT ![t] = "d_unlisten"]
    /\ UNCHANGED <<lock, restrict_origin, listeners, jobs, events, wire,
                   argApi, argEv, sent, emptied, last,
                   remVars, apiVars, poolVars, uniqueVars>>

DiscListenersKeep(ls, d) == ls

\* if len(self._targets) == 0: self.hass.bus.remove_listener(MATCH_ALL, ...)
DiscListeners(ls, d) ==
    IF Cardinality(d) = 0 THEN BusRemoveListener(ls, FwdListener) ELSE ls

\* the removal of the listener, and the end of the with block
DiscUnlisten(t) ==
    /\ pc[t] = "d_unlisten"
    /\ listeners' = DiscListeners(listeners, targets)
    /\ lock' = 0
    /\ pc' = [pc EXCEPT ![t] = "idle"]
    /\ argApi' = [argApi EXCEPT ![t] = NoApi]
    /\ emptied' = (targets = {} /\ \A u \in Threads : ~InConnect(u))
    /\ last' = [op |-> "disconnect",
                had |-> \E it \in snap[t] : it[2].host = argApi[t].host
                                             /\ it[2].port = argApi[t].port,
                ret |-> didRemove[t]]
    /\ snap' = [snap EXCEPT ![t] = {}]
    /\ didRemove' = [didRemove EXCEPT ![t] = FALSE]
    /\ UNCHANGED <<targets, restrict_origin, jobs, events, wire,
                   argEv, sent,
                   remVars, apiVars, poolVars, uniqueVars>>

\* ---- a local event is published on the hub's bus ----
Publish(type, origin) ==
    /\ Len(events) < MaxEvents
    /\ LET e == Len(events) + 1 IN
        /\ events' = Append(events,
                        [type |-> type, origin |-> origin,
                         stable |-> \A t \in Threads : ~InConnect(t) /\ ~InDisconnect(t),
                         quiet |-> emptied])
        /\ jobs' = jobs \cup BusFireJobs(listeners, e)
    /\ UNCHANGED <<targets, lock, restrict_origin, listeners, wire,
                   pc, argApi, argEv, sent, snap, emptied, didRemove, last,
                   remVars, apiVars, poolVars, uniqueVars>>

\* ---- _event_listener(event), run by a worker thread ----
\* a worker takes the job and enters the with block; the early return is decided
TakeJob(t, j) ==
    /\ pc[t] = "idle"
    /\ j \in jobs
    /\ LockFree
    /\ lock' = t
    /\ jobs' = jobs \ {j}
    /\ argEv' = [argEv EXCEPT ![t] = j[1]]
    /\ snap' = [snap EXCEPT ![t] = targets]
    /\ sent' = [sent EXCEPT ![t] = {}]
    /\ pc' = [pc EXCEPT ![t] = IF ShouldSkip(events[j[1]]) THEN "l_skip" ELSE "l_iter"]
    /\ UNCHANGED <<targets, restrict_origin, listeners, events, wire,
                   argApi, emptied, didRemove, last,
                   remVars, apiVars, poolVars, uniqueVars>>

\* return inside the with block: the lock is released
LisSkip(t) ==
    /\ pc[t] = "l_skip"
    /\ lock' = 0
    /\ pc' = [pc EXCEPT ![t] = "idle"]
    /\ argEv' = [argEv EXCEPT ![t] = 0]
    /\ snap' = [snap EXCEPT ![t] = {}]
    /\ UNCHANGED <<targets, restrict_origin, listeners, jobs, events, wire,
                   argApi, sent, emptied, didRemove, last,
                   remVars, apiVars, poolVars, uniqueVars>>

RemainingFirstOnly(d, done) == IF done = {} THEN d ELSE {}

\* for api in self._targets.values(): the items the loop has yet to visit
Remaining(d, done) == d \ done

\* fire_event(api, ...) for the next target, or the end of the loop
LisIter(t) ==
    /\ pc[t] = "l_iter"
    /\ IF Remaining(targets, sent[t]) # {}
       THEN \E it \in Remaining(targets, sent[t]) :
                /\ wire' = Issue(wire, FireEventCall(it[2], argEv[t]))
                /\ sent' = [sent EXCEPT ![t] = sent[t] \cup {it}]
                /\ pc' = pc
       ELSE /\ pc' = [pc EXCEPT ![t] = "l_release"]
            /\ UNCHANGED <<wire, sent, uniqueVars>>
    /\ UNCHANGED <<targets, lock, restrict_origin, listeners, jobs, events,
                   argApi, argEv, snap, emptied, didRemove, last,
                   remVars, apiVars, poolVars, uniqueVars>>

\* the end of the with block
LisRelease(t) ==
    /\ pc[t] = "l_release"
    /\ lock' = 0
    /\ pc' = [pc EXCEPT ![t] = "idle"]
    /\ argEv' = [argEv EXCEPT ![t] = 0]
    /\ sent' = [sent EXCEPT ![t] = {}]
    /\ snap' = [snap EXCEPT ![t] = {}]
    /\ UNCHANGED <<targets, restrict_origin, listeners, jobs, events, wire,
                   argApi, emptied, didRemove, last,
                   remVars, apiVars, poolVars, uniqueVars>>

(***************************************************************************)
(* The remote-backed hub: EventBus, StateMachine.                          *)
(***************************************************************************)
Entities == {"light.a", "light.b"}
States == {"on", "off"}

\* a state dict of a response from which State.from_dict builds no State
Undecodable == "undecodable"
NoState == "None"

\* the binding of the remote instance
RemoteApi == MkAPI("h1", "x", NoPort)

EmptyMap == [e \in {} |-> NoState]

\* what GET /api/states can come back with: no connection, a body that is not
\* JSON, JSON that is not a dict, or a dict of entity id -> state dict
Responses ==
    {[kind |-> k, body |-> EmptyMap] : k \in {"unreachable", "badjson", "nondict"}}
    \cup {[kind |-> "dict", body |-> b] :
            b \in UNION {[S -> {"on", Undecodable}] : S \in SUBSET Entities}}

NoResponse == [kind |-> "none", body |-> EmptyMap]

\* no mirror since the last event was applied
NoMirror == [kind |-> "none", body |-> EmptyMap, before |-> {}]

\* no state-changed event has arrived since the last bulk read
NoneArrived == [e \in Entities |-> NoState]
Several == "several"

\* a state-changed event for entity_id has been handed to the local bus: it
\* carries a state newer than the last bulk read returned; a second event
\* for the same entity makes the entity's newest state depend on the order
\* the workers apply them in
Arrived(n, type, entity_id, new_state) ==
    IF type = EVENT_STATE_CHANGED
    THEN [n EXCEPT ![entity_id] = IF @ = NoState THEN new_state ELSE Several]
    ELSE n

\* ha.State.from_dict(state_dict), as get_states uses it: a State, or a false
\* value when the dict holds no state
FromDict(state_dict) == IF state_dict = Undecodable THEN NoState ELSE state_dict

\* get_states(api): the states of the entries that decode; {} when the call
\* raises HomeAssistantError, ValueError or AttributeError
GetStates(r) ==
    IF r.kind = "dict"
    THEN [e \in {x \in DOMAIN r.body : FromDict(r.body[x]) # NoState} |->
            FromDict(r.body[e])]
    ELSE EmptyMap

GetStatesCall(api) == ApiCall(api, "get", "/api/states", NoData)

\* set_state(api, entity_id, new_state, attributes): POST /api/states/<entity_id>
SetStateCall(api, entity_id, new_state) ==
    ApiCall(api, "post", "/api/states/{}",
            [NoData EXCEPT !.entity_id = entity_id, !.new_state = new_state])

\* d[key] = value on a dict held as a function
MapSet(d, key, value) ==
    [k \in DOMAIN d \cup {key} |-> IF k = key THEN value ELSE d[k]]

\* d.update(other) on dicts held as functions
MapUpdate(d, other) ==
    [k \in DOMAIN d \cup DOMAIN other |-> IF k \in DOMAIN other THEN other[k] ELSE d[k]]

\* the remote hub does not exist: the state of its variables under Spec
RemIdle ==
    /\ cache = EmptyMap
    /\ subscribed = FALSE
    /\ hpc = "none"
    /\ resp = NoResponse
    /\ rjobs = {}
    /\ fired = <<>>
    /\ dispatched = EmptyBag
    /\ nSet = 0
    /\ lastSet = "none"
    /\ mirrored = NoMirror
    /\ newest = NoneArrived

\* the forwarder is not part of the remote hub: its variables under SpecRemote
FwdIdle ==
    /\ targets = {}
    /\ lock = 0
    /\ restrict_origin = NoOrigin
    /\ listeners = <<>>
    /\ jobs = {}
    /\ events = <<>>
    /\ pc = [t \in Threads |-> "idle"]
    /\ argApi = [t \in Threads |-> NoApi]
    /\ argEv = [t \in Threads |-> 0]
    /\ sent = [t \in Threads |-> {}]
    /\ snap = [t \in Threads |-> {}]
    /\ didRemove = [t \in Threads |-> FALSE]
    /\ emptied = FALSE
    /\ last = [op |-> "none", had |-> FALSE, ret |-> FALSE]

fwdIdleVars == <<targets, lock, restrict_origin, listeners, jobs, events,
                 pc, argApi, argEv, sent, snap, didRemove, emptied, last>>

\* HomeAssistant.__init__ has created the EventBus and enters
\* StateMachine.__init__, whose dict is empty
RemInit ==
    /\ wire = EmptyBag
    /\ cache = EmptyMap
    /\ subscribed = FALSE
    /\ hpc = "ctor"
    /\ resp = NoResponse
    /\ rjobs = {}
    /\ fired = <<>>
    /\ dispatched = EmptyBag
    /\ nSet = 0
    /\ lastSet = "none"
    /\ mirrored = NoMirror
    /\ newest = NoneArrived

MirrorCalls == CountCalls(wire, LAMBDA c : c.path = "/api/states")

\* the operations the hub has been asked for so far
OpsDone == Len(fired) + nSet + MirrorCalls + nApi

\* ---- StateMachine.mirror(): get_states issues GET /api/states ----
MirrorCall(r) ==
    /\ hpc \in {"ctor", "run"}
    /\ OpsDone < MaxOps
    /\ wire' = Issue(wire, GetStatesCall(RemoteApi))
    /\ resp' = r
    /\ mirrored' = NoMirror
    /\ newest' = NoneArrived
    /\ hpc' = IF hpc = "ctor" THEN "ctor_fetch" ELSE "run_fetch"
    /\ UNCHANGED <<cache, subscribed, rjobs, fired, dispatched, nSet, lastSet,
                   fwdIdleVars, apiVars, poolVars, uniqueVars>>

MirrorMerges(c, r) == MapUpdate(c, GetStates(r))

\* self._states = get_states(self._api, self.logger)
MirrorStates(c, r) == GetStates(r)

MirrorAssign ==
    /\ hpc \in {"ctor_fetch", "run_fetch"}
    /\ cache' = MirrorStates(cache, resp)
    /\ mirrored' = [kind |-> resp.kind, body |-> resp.body, before |-> DOMAIN cache]
    /\ resp' = NoResponse
    /\ hpc' = IF hpc = "ctor_fetch" THEN "ctor_listen" ELSE "run"
    /\ UNCHANGED <<wire, subscribed, rjobs, fired, dispatched, nSet, lastSet, newest,
                   fwdIdleVars, apiVars, poolVars, uniqueVars>>

\* bus.listen(ha.EVENT_STATE_CHANGED, self._state_changed_listener)
CtorListen ==
    /\ hpc = "ctor_listen"
    /\ subscribed' = TRUE
    /\ hpc' = "run"
    /\ UNCHANGED <<wire, cache, resp, rjobs, fired, dispatched, nSet, lastSet, mirrored, newest,
                   fwdIdleVars, apiVars, poolVars, uniqueVars>>

FireForwardsNever(type, origin) == FALSE

FireForwardsEither(type, origin) ==
    origin = OriginLocal \/ type # EVENT_TIME_CHANGED

\* EventBus.fire: local events that are not TIME_CHANGED are forwarded to the API
FireForwards(type, origin) ==
    origin = OriginLocal /\ type # EVENT_TIME_CHANGED

\* ha.EventBus.fire: one worker-pool job per listener of the event's type
SuperFireJobs(e, type, entity_id, new_state) ==
    IF subscribed /\ type = EVENT_STATE_CHANGED
    THEN {[ev |-> e, entity_id |-> entity_id, new_state |-> new_state]}
    ELSE {}

\* ---- EventBus.fire(event_type, event_data, origin) ----
Fire(type, origin, entity_id, new_state) ==
    /\ OpsDone < MaxOps
    /\ LET e == Len(fired) + 1 IN
        /\ fired' = Append(fired, [type |-> type, origin |-> origin])
        /\ IF FireForwards(type, origin)
           THEN /\ wire' = Issue(wire, FireEventCall(RemoteApi, e))
                /\ UNCHANGED <<dispatched, rjobs, newest>>
           ELSE /\ dispatched' = dispatched (+) SetToBag({e})
                /\ rjobs' = rjobs \cup SuperFireJobs(e, type, entity_id, new_state)
                /\ newest' = Arrived(newest, type, entity_id, new_state)
                /\ UNCHANGED wire
    /\ UNCHANGED <<cache, subscribed, hpc, resp, nSet, lastSet, mirrored,
                   fwdIdleVars, apiVars, poolVars, uniqueVars>>

SetOutcomes == {"201", "rejected", "unreachable"}

SetWritesCache(c, entity_id, new_state, outcome) ==
    IF outcome = "201" THEN MapSet(c, entity_id, new_state) ELSE c

\* StateMachine.set: the cache after the call
SetCache(c, entity_id, new_state, outcome) == c

\* ---- StateMachine.set(entity_id, new_state, attributes) ----
\* set_state makes the call; a non-201 answer is logged, HomeAssistantError is caught
Set(entity_id, new_state, outcome) ==
    /\ hpc \in {"run", "run_fetch"}
    /\ OpsDone < MaxOps
    /\ nSet' = nSet + 1
    /\ lastSet' = outcome
    /\ wire' = Issue(wire, SetStateCall(RemoteApi, entity_id, new_state))
    /\ cache' = SetCache(cache, entity_id, new_state, outcome)
    /\ UNCHANGED <<subscribed, hpc, resp, rjobs, fired, dispatched, mirrored, newest,
                   fwdIdleVars, apiVars, poolVars, uniqueVars>>

\* ---- _state_changed_listener(event), run by a worker thread ----
\* self._states[event.data['entity_id']] = event.data['new_state']
ApplyEvent(j) ==
    /\ j \in rjobs
    /\ rjobs' = rjobs \ {j}
    /\ cache' = MapSet(cache, j.entity_id, j.new_state)
    /\ mirrored' = NoMirror
    /\ UNCHANGED <<wire, subscribed, hpc, resp, fired, dispatched, nSet, lastSet, newest,
                   fwdIdleVars, apiVars, poolVars, uniqueVars>>

(***************************************************************************)
(* The remote binding: API.validate_api, API.__call__, the construction of *)
(* the remote-backed HomeAssistant, and the module's functions that make   *)
(* one call through a binding.                                             *)
(***************************************************************************)
\* APIStatus, and None for a binding that was never validated
StatusNone == "None"
StatusOK == "ok"
StatusInvalidPassword == "invalid_password"
StatusCannotConnect == "cannot_connect"
StatusUnknown == "unknown"

\* the ways a request fails in transport
Failures == {"refused", "dns_failure", "timeout"}
NoFailure == "none"

\* the status codes and the bodies of a response: JSON of the expected
\* structure, a JSON dict without the expected key, JSON that is no dict, and
\* a body that is no JSON
Codes == {200, 401, 500}
ReadCodes == {200, 500}
Bodies == {"dict", "nokey", "nondict", "badjson"}

NoAnswer == [fail |-> NoFailure, code |-> 0, body |-> "none"]

\* what a request can come back with when the body is not looked at
Answers ==
    {[fail |-> f, code |-> 0, body |-> "none"] : f \in Failures}
    \cup {[fail |-> NoFailure, code |-> c, body |-> "dict"] : c \in Codes}

\* what a request of a read operation can come back with
ReadAnswers ==
    {[fail |-> f, code |-> 0, body |-> "none"] : f \in Failures}
    \cup {[fail |-> NoFailure, code |-> c, body |-> b] : c \in ReadCodes, b \in Bodies}

NoException == "none"

\* requests.get / requests.request: a transport failure is a ConnectionError
RequestRaises(a) == IF a.fail # NoFailure THEN "ConnectionError" ELSE NoException

ApiCallReraises(a) == RequestRaises(a)

\* API.__call__: except requests.exceptions.ConnectionError:
\*                   raise ha.HomeAssistantError
ApiCallRaises(a) ==
    IF RequestRaises(a) = "ConnectionError" THEN "HomeAssistantError"
    ELSE RequestRaises(a)

\* try: ... except caught: the exception that leaves the try statement
Except(exc, caught) == IF exc \in caught THEN NoException ELSE exc

\* the result of the last call: nothing was called yet
NoCall == [op |-> "none", force |-> FALSE, answer |-> NoAnswer, made |-> 0,
           before |-> StatusNone, ret |-> "None", raised |-> NoException]

ValidateCall(api) == ApiCall(api, "get", "/api/", NoData)

\* validate_api(api): the exception that leaves it
ValidateRaises(a) == Except(ApiCallRaises(a), {"HomeAssistantError"})

ValidateStatusAuthUnknown(a) ==
    IF ApiCallRaises(a) = "HomeAssistantError" THEN StatusCannotConnect
    ELSE IF a.code = 200 THEN StatusOK
    ELSE StatusUnknown

\* validate_api(api): the APIStatus returned
ValidateStatus(a) ==
    IF ApiCallRaises(a) = "HomeAssistantError" THEN StatusCannotConnect
    ELSE IF a.code = 200 THEN StatusOK
    ELSE IF a.code = 401 THEN StatusInvalidPassword
    ELSE StatusUnknown

ShouldValidateUnlessOK(st, force_validate) == st # StatusOK \/ force_validate

\* if self.status is None or force_validate:
ShouldValidate(st, force_validate) == st = StatusNone \/ force_validate

\* API.validate_api: self.status afterwards
ValidatedStatus(st, force_validate, a) ==
    IF ShouldValidate(st, force_validate) /\ ValidateRaises(a) = NoException
    THEN ValidateStatus(a)
    ELSE st

\* API.validate_api: the wire afterwards
ValidatedWire(w, st, force_validate) ==
    IF ShouldValidate(st, force_validate) THEN Issue(w, ValidateCall(RemoteApi)) ELSE w

\* API.validate_api: the exception that leaves it
ValidatedRaises(st, force_validate, a) ==
    IF ShouldValidate(st, force_validate) THEN ValidateRaises(a) ELSE NoException

\* return self.status == APIStatus.OK
ValidatedReturn(st) == IF st = StatusOK THEN "True" ELSE "False"

Made(w1, w0) == BagCardinality(w1) - BagCardinality(w0)

\* ---- API.validate_api(force_validate) on the remote binding ----
ValidateApi(force_validate, a) ==
    /\ OpsDone < MaxOps
    /\ nApi' = nApi + 1
    /\ status' = ValidatedStatus(status, force_validate, a)
    /\ wire' = ValidatedWire(wire, status, force_validate)
    /\ lastCall' = [op |-> "validate_api", force |-> force_validate,
                answer |-> IF ShouldValidate(status, force_validate) THEN a ELSE NoAnswer,
                made |-> Made(wire', wire), before |-> status,
                ret |-> IF ValidatedRaises(status, force_validate, a) = NoException
                        THEN ValidatedReturn(status') ELSE "None",
                raised |-> ValidatedRaises(status, force_validate, a)]
    /\ UNCHANGED <<built, fwdIdleVars, remVars, poolVars, uniqueVars>>

HubParts == {"pool", "bus", "services"}

ConstructRaisesOnBadPassword(st) == st = StatusInvalidPassword

\* if not remote_api.validate_api(): raise ha.HomeAssistantError
ConstructRaises(st) == ValidatedReturn(st) # "True"

\* ---- HomeAssistant.__init__(remote_api), up to StateMachine.__init__ ----
\* the validation; then either the raise or the worker pool, the EventBus and
\* the ServiceRegistry are created and StateMachine.__init__ is entered
Construct(a) ==
    /\ hpc \in {"none", "raised"}
    /\ OpsDone < MaxOps
    /\ nApi' = nApi + 1
    /\ status' = ValidatedStatus(status, FALSE, a)
    /\ wire' = ValidatedWire(wire, status, FALSE)
    /\ LET exc == IF ValidatedRaises(status, FALSE, a) # NoException
                  THEN ValidatedRaises(status, FALSE, a)
                  ELSE IF ConstructRaises(status') THEN "HomeAssistantError"
                  ELSE NoException
       IN /\ hpc' = IF exc = NoException THEN "ctor" ELSE "raised"
          /\ built' = IF exc = NoException THEN HubParts ELSE {}
          /\ lastCall' = [op |-> "HomeAssistant", force |-> FALSE,
                      answer |-> IF ShouldValidate(status, FALSE) THEN a ELSE NoAnswer,
                      made |-> Made(wire', wire), before |-> status,
                      ret |-> "None", raised |-> exc]
    /\ UNCHANGED <<cache, subscribed, resp, rjobs, fired, dispatched, nSet,
                   lastSet, mirrored, newest, fwdIdleVars, poolVars, uniqueVars>>

\* the binding of the local instance
LocalApi == MkAPI("h2", "x", NoPort)

\* disconnect_remote_events(from_api, to_api): POST /api/event_forwarding
DisconnectRemoteEventsCall(from_api, to_api) ==
    ApiCall(from_api, "post", "/api/event_forwarding",
            [NoData EXCEPT !.host = to_api.host, !.port = to_api.port,
                           !.METHOD = "DELETE"])

\* fire_event: except ha.HomeAssistantError: pass
FireEventRaises(a) == Except(ApiCallRaises(a), {"HomeAssistantError"})

\* set_state: except ha.HomeAssistantError: the error is logged
SetStateRaises(a) == Except(ApiCallRaises(a), {"HomeAssistantError"})

\* connect_remote_events: except ha.HomeAssistantError: pass
ConnectRemoteEventsRaises(a) == Except(ApiCallRaises(a), {"HomeAssistantError"})

\* disconnect_remote_events: except ha.HomeAssistantError: pass
DisconnectRemoteEventsRaises(a) == Except(ApiCallRaises(a), {"HomeAssistantError"})

\* call_service: fire_event(api, ha.EVENT_CALL_SERVICE, event_data, logger)
CallServiceRaises(a) == FireEventRaises(a)

\* EventBus.fire of a local event that is not the time tick: fire_event(...)
BusFireRaises(a) == FireEventRaises(a)

\* StateMachine.set: set_state(...)
StateSetRaises(a) == SetStateRaises(a)

\* EventForwarder._event_listener, for one target: fire_event(...)
ReplayRaises(a) == FireEventRaises(a)

WriteOps == {"EventBus.fire", "StateMachine.set", "EventForwarder.replay",
             "call_service", "connect_remote_events", "disconnect_remote_events"}

\* the call each of these operations makes
WriteCall(op) ==
    CASE op = "StateMachine.set" -> SetStateCall(RemoteApi, "light.a", "on")
      [] op = "connect_remote_events" -> ConnectRemoteEventsCall(RemoteApi, LocalApi)
      [] op = "disconnect_remote_events" -> DisconnectRemoteEventsCall(RemoteApi, LocalApi)
      [] OTHER -> FireEventCall(RemoteApi, 0)

\* the exception that leaves each of these operations
WriteRaises(op, a) ==
    CASE op = "EventBus.fire" -> BusFireRaises(a)
      [] op = "StateMachine.set" -> StateSetRaises(a)
      [] op = "EventForwarder.replay" -> ReplayRaises(a)
      [] op = "call_service" -> CallServiceRaises(a)
      [] op = "connect_remote_events" -> ConnectRemoteEventsRaises(a)
      [] op = "disconnect_remote_events" -> DisconnectRemoteEventsRaises(a)

\* ---- an operation that sends to the remote and returns nothing ----
Write(op, a) ==
    /\ OpsDone < MaxOps
    /\ nApi' = nApi + 1
    /\ wire' = Issue(wire, WriteCall(op))
    /\ lastCall' = [op |-> op, force |-> FALSE, answer |-> a, made |-> 1,
                before |-> status, ret |-> "None", raised |-> WriteRaises(op, a)]
    /\ UNCHANGED <<status, built, fwdIdleVars, remVars, poolVars, uniqueVars>>

\* req.json(): ValueError when the body is no JSON
JsonRaises(a) == IF a.body = "badjson" THEN "ValueError" ELSE NoException

\* req.json()[key]: KeyError when the dict has no such key, TypeError when
\* the parsed JSON is a list, a string, a number or null
SubscriptRaises(a) ==
    IF a.body = "nondict" THEN "TypeError"
    ELSE IF a.body = "nokey" THEN "KeyError"
    ELSE NoException

\* json_result.items(): AttributeError when the parsed JSON is no dict
ItemsRaises(a) == IF a.body = "nondict" THEN "AttributeError" ELSE NoException

\* the first exception of a sequence of steps, each run only if the ones
\* before it raised nothing
FirstRaised(excs) ==
    IF \E i \in DOMAIN excs : excs[i] # NoException
    THEN excs[CHOOSE i \in DOMAIN excs :
                /\ excs[i] # NoException
                /\ \A k \in 1..(i - 1) : excs[k] = NoException]
    ELSE NoException

\* req.json()[key] if req.status_code == 200 else {}: what the try block of
\* get_event_listeners and of get_services raises
KeyedReadTry(a) ==
    FirstRaised(<<ApiCallRaises(a),
                  IF a.code = 200 THEN JsonRaises(a) ELSE NoException,
                  IF a.code = 200 THEN SubscriptRaises(a) ELSE NoException>>)

\* get_event_listeners: except (ha.HomeAssistantError, ValueError, KeyError)
GetEventListenersRaises(a) ==
    Except(KeyedReadTry(a), {"HomeAssistantError", "ValueError", "KeyError"})

GetEventListenersReturn(a) ==
    IF KeyedReadTry(a) = NoException /\ a.code = 200 THEN "event_listeners" ELSE "{}"

\* get_services: except (ha.HomeAssistantError, ValueError, KeyError)
GetServicesRaises(a) ==
    Except(KeyedReadTry(a), {"HomeAssistantError", "ValueError", "KeyError"})

GetServicesReturn(a) ==
    IF KeyedReadTry(a) = NoException /\ a.code = 200 THEN "services" ELSE "{}"

\* get_states: the status code is not looked at; what the try block raises
GetStatesTry(a) == FirstRaised(<<ApiCallRaises(a), JsonRaises(a), ItemsRaises(a)>>)

\* get_states: except (ha.HomeAssistantError, ValueError, AttributeError)
GetStatesRaises(a) ==
    Except(GetStatesTry(a), {"HomeAssistantError", "ValueError", "AttributeError"})

GetStatesReturn(a) == IF GetStatesTry(a) = NoException THEN "states" ELSE "{}"

\* get_state: State.from_dict(req.json()) if req.status_code == 200 else None;
\* what the try block raises
GetStateTry(a) ==
    FirstRaised(<<ApiCallRaises(a),
                  IF a.code = 200 THEN JsonRaises(a) ELSE NoException>>)

\* get_state: except (ha.HomeAssistantError, ValueError)
GetStateRaises(a) == Except(GetStateTry(a), {"HomeAssistantError", "ValueError"})

\* State.from_dict gives no State for a body that holds none
GetStateReturn(a) ==
    IF GetStateTry(a) = NoException /\ a.code = 200 /\ a.body = "dict"
    THEN "state" ELSE "None"

ReadOps == {"get_event_listeners", "get_services", "get_states", "get_state"}

ReadCall(op) ==
    CASE op = "get_event_listeners" -> ApiCall(RemoteApi, "get", "/api/events", NoData)
      [] op = "get_services" -> ApiCall(RemoteApi, "get", "/api/services", NoData)
      [] op = "get_states" -> GetStatesCall(RemoteApi)
      [] op = "get_state" ->
            ApiCall(RemoteApi, "get", "/api/states/{}", [NoData EXCEPT !.entity_id = "light.a"])

ReadRaises(op, a) ==
    CASE op = "get_event_listeners" -> GetEventListenersRaises(a)
      [] op = "get_services" -> GetServicesRaises(a)
      [] op = "get_states" -> GetStatesRaises(a)
      [] op = "get_state" -> GetStateRaises(a)

ReadReturn(op, a) ==
    CASE op = "get_event_listeners" -> GetEventListenersReturn(a)
      [] op = "get_services" -> GetServicesReturn(a)
      [] op = "get_states" -> GetStatesReturn(a)
      [] op = "get_state" -> GetStateReturn(a)

\* ---- a read operation: one GET, the answer decoded ----
Read(op, a) ==
    /\ OpsDone < MaxOps
    /\ nApi' = nApi + 1
    /\ wire' = Issue(wire, ReadCall(op))
    /\ lastCall' = [op |-> op, force |-> FALSE, answer |-> a, made |-> 1,
                before |-> status,
                ret |-> IF ReadRaises(op, a) = NoException THEN ReadReturn(op, a) ELSE "None",
                raised |-> ReadRaises(op, a)]
    /\ UNCHANGED <<status, built, fwdIdleVars, remVars, poolVars, uniqueVars>>

\* no binding is in use: the state of these variables under Spec
ApiIdle ==
    /\ status = StatusNone
    /\ built = {}
    /\ lastCall = NoCall
    /\ nApi = 0

\* the binding of a hub whose construction passed the validation
ApiValid ==
    /\ status = StatusOK
    /\ built = HubParts
    /\ lastCall = NoCall
    /\ nApi = 0

(***************************************************************************)
(* The ThreadPool: add_job, the PriorityQueue of PriorityQueueItems and    *)
(* _threadpool_worker.                                                     *)
(***************************************************************************)
Workers == 1..MaxWorkers
Priorities == {1, 2}
NoCallback == "None"
NoJob == 0

\* PriorityQueueItem(priority, job)
PriorityQueueItem(priority, item) == [priority |-> priority, item |-> item]

\* PriorityQueueItem.__lt__: self.priority < other.priority
Lt(self, other) == self.priority < other.priority

RECURSIVE SiftDown(_, _, _)
\* the heap's walk towards the root: newitem moves up past every parent it
\* is less than
SiftDown(heap, pos, newitem) ==
    IF pos > 1 /\ Lt(newitem, heap[pos \div 2])
    THEN SiftDown([heap EXCEPT ![pos] = heap[pos \div 2]], pos \div 2, newitem)
    ELSE [heap EXCEPT ![pos] = newitem]

RECURSIVE SiftUp(_, _, _)
\* the heap's walk towards the leaves: the child that is not greater moves
\* up, the right one when neither is less; newitem is then placed at the
\* leaf and walks towards the root
SiftUp(heap, pos, newitem) ==
    LET childpos == 2 * pos
        rightpos == childpos + 1
    IN  IF childpos <= Len(heap)
        THEN LET c == IF rightpos <= Len(heap) /\ ~Lt(heap[childpos], heap[rightpos])
                      THEN rightpos ELSE childpos
             IN SiftUp([heap EXCEPT ![pos] = heap[c]], c, newitem)
        ELSE SiftDown([heap EXCEPT ![pos] = newitem], pos, newitem)

\* work_queue.put(item)
QueuePut(heap, item) == SiftDown(Append(heap, item), Len(heap) + 1, item)

\* work_queue.get(): the item returned
QueueGetItem(heap) == heap[1]

\* work_queue.get(): the heap afterwards
QueueGetRest(heap) ==
    IF Len(heap) = 1 THEN <<>>
    ELSE SiftUp([SubSeq(heap, 1, Len(heap) - 1) EXCEPT ![1] = heap[Len(heap)]],
                1, heap[Len(heap)])

\* work_queue.qsize()
QSize(heap) == Len(heap)

ExceedsOrEquals(depth, limit) == depth >= limit

\* if self.work_queue.qsize() > self.busy_warning_limit:
Exceeds(depth, limit) == depth > limit

NextLimitAdds(limit) == limit + 1

\* self.busy_warning_limit *= 2
NextLimit(limit) == limit * 2

\* ThreadPool.__init__(worker_count, job_handler, busy_callback=None): the
\* workers are started and block in work_queue.get()
PoolInit ==
    /\ worker_count \in Workers
    /\ busy_callback \in {NoCallback, "callback"}
    /\ work_queue = <<>>
    /\ busy_warning_limit = worker_count * worker_count
    /\ current_jobs = <<>>
    /\ wpc = [w \in Workers |-> IF w <= worker_count THEN "get" ELSE "absent"]
    /\ wjob = [w \in Workers |-> NoJob]
    /\ ppc = "idle"
    /\ submitted = <<>>
    /\ taken = <<>>
    /\ busy = <<>>

\* no pool is in use: the state of these variables under the other
\* specifications
PoolIdle ==
    /\ worker_count = 0
    /\ busy_callback = NoCallback
    /\ work_queue = <<>>
    /\ busy_warning_limit = 0
    /\ current_jobs = <<>>
    /\ wpc = [w \in Workers |-> "absent"]
    /\ wjob = [w \in Workers |-> NoJob]
    /\ ppc = "idle"
    /\ submitted = <<>>
    /\ taken = <<>>
    /\ busy = <<>>

\* ---- add_job(priority, job): self.work_queue.put(...) ----
AddJobPut(priority) ==
    /\ ppc = "idle"
    /\ Len(submitted) < MaxJobs
    /\ submitted' = Append(submitted, priority)
    /\ work_queue' = QueuePut(work_queue, PriorityQueueItem(priority, Len(submitted) + 1))
    /\ ppc' = "check"
    /\ UNCHANGED <<worker_count, busy_callback, busy_warning_limit, current_jobs,
                   wpc, wjob, taken, busy, fwdVars, remVars, apiVars, uniqueVars>>

\* ---- add_job: the check of the queue's size, and the doubling ----
AddJobCheck ==
    /\ ppc = "check"
    /\ IF Exceeds(QSize(work_queue), busy_warning_limit)
       THEN /\ busy_warning_limit' = NextLimit(busy_warning_limit)
            /\ busy' = Append(busy, [checked |-> QSize(work_queue), reported |-> 0,
                                     result |-> "pending"])
            /\ ppc' = "callback"
       ELSE /\ ppc' = "idle"
            /\ UNCHANGED <<busy_warning_limit, busy, uniqueVars>>
    /\ UNCHANGED <<worker_count, busy_callback, work_queue, current_jobs,
                   wpc, wjob, submitted, taken, fwdVars, remVars, apiVars, uniqueVars>>

\* self.busy_callback(...) with no callback given: None is called
CallbackResult(cb) == IF cb = NoCallback THEN "TypeError" ELSE "invoked"

\* ---- add_job: self.busy_callback(self.current_jobs, self.work_queue.qsize()) ----
AddJobCallback ==
    /\ ppc = "callback"
    /\ busy' = [busy EXCEPT ![Len(busy)] =
                    [@ EXCEPT !.reported = QSize(work_queue),
                              !.result = CallbackResult(busy_callback)]]
    /\ ppc' = "idle"
    /\ UNCHANGED <<worker_count, busy_callback, work_queue, busy_warning_limit,
                   current_jobs, wpc, wjob, submitted, taken, fwdVars, remVars, apiVars, uniqueVars>>

\* ---- _threadpool_worker: job = work_queue.get().item ----
WorkerGet(w) ==
    /\ wpc[w] = "get"
    /\ work_queue # <<>>
    /\ wjob' = [wjob EXCEPT ![w] = QueueGetItem(work_queue).item]
    /\ work_queue' = QueueGetRest(work_queue)
    /\ taken' = Append(taken, QueueGetItem(work_queue).item)
    /\ wpc' = [wpc EXCEPT ![w] = "log"]
    /\ UNCHANGED <<worker_count, busy_callback, busy_warning_limit, current_jobs,
                   ppc, submitted, busy, fwdVars, remVars, apiVars, uniqueVars>>

\* ---- _threadpool_worker: current_jobs.append(job_log); job_handler(job) begins ----
WorkerLog(w) ==
    /\ wpc[w] = "log"
    /\ current_jobs' = Append(current_jobs, wjob[w])
    /\ wpc' = [wpc EXCEPT ![w] = "handle"]
    /\ UNCHANGED <<worker_count, busy_callback, work_queue, busy_warning_limit,
                   wjob, ppc, submitted, taken, busy, fwdVars, remVars, apiVars, uniqueVars>>

\* ---- _threadpool_worker: job_handler(job) returns ----
WorkerHandled(w) ==
    /\ wpc[w] = "handle"
    /\ wpc' = [wpc EXCEPT ![w] = "remove"]
    /\ UNCHANGED <<worker_count, busy_callback, work_queue, busy_warning_limit,
                   current_jobs, wjob, ppc, submitted, taken, busy,
                   fwdVars, remVars, apiVars, uniqueVars>>

UnlogKeeps(list, job_log) == list

\* current_jobs.remove(job_log)
Unlog(list, job_log) == RemoveFirst(list, job_log)

\* ---- _threadpool_worker: current_jobs.remove(job_log); work_queue.task_done() ----
WorkerDone(w) ==
    /\ wpc[w] = "remove"
    /\ current_jobs' = Unlog(current_jobs, wjob[w])
    /\ wjob' = [wjob EXCEPT ![w] = NoJob]
    /\ wpc' = [wpc EXCEPT ![w] = "get"]
    /\ UNCHANGED <<worker_count, busy_callback, work_queue, busy_warning_limit,
                   ppc, submitted, taken, busy, fwdVars, remVars, apiVars, uniqueVars>>

(***************************************************************************)
(* util.ensure_unique_string(preferred_string, current_strings).           *)
(* A string is a name with a numeric suffix: <<"a", 1>> is "a" itself and  *)
(* <<"a", k>> is "a_k".                                                    *)
(***************************************************************************)
Names == {"a", "b"}
NoString == <<"", 0>>

Plain(name) == <<name, 1>>

\* "{}_{}".format(preferred_string, tries)
Format(preferred, n) == <<preferred[1], n>>

Strings == {<<name, k>> : name \in Names, k \in 1..MaxTries}

\* tries += 1; values of MaxTries and more are not told apart: no test
\* of the function reads tries
Incr(n) == IF n < MaxTries THEN n + 1 ELSE MaxTries

\* the call has been made and the two locals are assigned
UniqueInit ==
    /\ preferred_string \in {Plain(name) : name \in Names}
    /\ current_strings \in SUBSET Strings
    /\ string = preferred_string
    /\ tries = 1
    /\ upc = "while"
    /\ returned = NoString

\* no call is made: the state of these variables under the other
\* specifications
UniqueIdle ==
    /\ preferred_string = NoString
    /\ current_strings = {}
    /\ string = NoString
    /\ tries = 0
    /\ upc = "none"
    /\ returned = NoString

\* while preferred_string in current_strings
WhileTest(preferred, current) == preferred \in current

EnsureWhile ==
    /\ upc = "while"
    /\ upc' = IF WhileTest(preferred_string, current_strings)
              THEN "body" ELSE "return"
    /\ UNCHANGED <<preferred_string, current_strings, string, tries, returned,
                   fwdVars, remVars, apiVars, poolVars>>

\* tries += 1; string = "{}_{}".format(preferred_string, tries)
EnsureBody ==
    /\ upc = "body"
    /\ tries' = Incr(tries)
    /\ string' = Format(preferred_string, tries')
    /\ upc' = "while"
    /\ UNCHANGED <<preferred_string, current_strings, returned,
                   fwdVars, remVars, apiVars, poolVars>>

\* return string
EnsureReturn ==
    /\ upc = "return"
    /\ returned' = string
    /\ upc' = "done"
    /\ UNCHANGED <<preferred_string, current_strings, string, tries,
                   fwdVars, remVars, apiVars, poolVars>>

Next ==
    \/ \E t \in Threads, api \in APIs : CallConnect(t, api)
    \/ \E t \in Threads : ConnListen(t)
    \/ \E t \in Threads : ConnStore(t)
    \/ \E t \in Threads, api \in APIs : CallDisconnect(t, api)
    \/ \E t \in Threads : DiscPop(t)
    \/ \E t \in Threads : DiscUnlisten(t)
    \/ \E type \in EventTypes, origin \in Origins : Publish(type, origin)
    \/ \E t \in Threads, j \in jobs : TakeJob(t, j)
    \/ \E t \in Threads : LisSkip(t)
    \/ \E t \in Threads : LisIter(t)
    \/ \E t \in Threads : LisRelease(t)

Init == FwdInit /\ RemIdle /\ ApiIdle /\ PoolIdle /\ UniqueIdle

Spec == Init /\ [][Next]_vars

\* ---- connect_remote_events(from_api, to_api), called by a peer ----
ConnectRemoteEvents(from_api, to_api) ==
    /\ BagCardinality(wire) < MaxCalls
    /\ wire' = Issue(wire, ConnectRemoteEventsCall(from_api, to_api))
    /\ UNCHANGED <<targets, lock, restrict_origin, listeners, jobs, events,
                   pc, argApi, argEv, sent, snap, didRemove, emptied, last,
                   remVars, apiVars, poolVars, uniqueVars>>

NextLink ==
    \/ \E t \in Threads, api \in APIs : CallConnect(t, api)
    \/ \E t \in Threads : ConnListen(t)
    \/ \E t \in Threads : ConnStore(t)
    \/ \E t \in Threads, api \in APIs : CallDisconnect(t, api)
    \/ \E t \in Threads : DiscPop(t)
    \/ \E t \in Threads : DiscUnlisten(t)
    \/ \E from_api \in APIs, to_api \in APIs : ConnectRemoteEvents(from_api, to_api)

SpecLink == Init /\ [][NextLink]_vars

NextRemote ==
    \/ \E r \in Responses : MirrorCall(r)
    \/ MirrorAssign
    \/ CtorListen
    \/ \E type \in EventTypes, origin \in Origins,
          entity_id \in Entities, new_state \in States :
            Fire(type, origin, entity_id, new_state)
    \/ \E entity_id \in Entities, new_state \in States, outcome \in SetOutcomes :
            Set(entity_id, new_state, outcome)
    \/ \E j \in rjobs : ApplyEvent(j)

InitRemote == FwdIdle /\ RemInit /\ ApiValid /\ PoolIdle /\ UniqueIdle

SpecRemote == InitRemote /\ [][NextRemote]_vars

NextApi ==
    \/ \E force_validate \in BOOLEAN, a \in Answers : ValidateApi(force_validate, a)
    \/ \E a \in Answers : Construct(a)
    \/ \E op \in WriteOps, a \in Answers : Write(op, a)
    \/ \E op \in ReadOps, a \in ReadAnswers : Read(op, a)

InitApi == FwdIdle /\ RemIdle /\ wire = EmptyBag /\ ApiIdle /\ PoolIdle /\ UniqueIdle

SpecApi == InitApi /\ [][NextApi]_vars

NextPool ==
    \/ \E priority \in Priorities : AddJobPut(priority)
    \/ AddJobCheck
    \/ AddJobCallback
    \/ \E w \in Workers : WorkerGet(w)
    \/ \E w \in Workers : WorkerLog(w)
    \/ \E w \in Workers : WorkerHandled(w)
    \/ \E w \in Workers : WorkerDone(w)

InitPool == FwdIdle /\ RemIdle /\ wire = EmptyBag /\ ApiIdle /\ PoolInit /\ UniqueIdle

SpecPool == InitPool /\ [][NextPool]_vars

\* a worker thread is a thread of its own: whatever step it can take it takes
\* in the end, and the job handler returns
WorkerStep(w) == WorkerGet(w) \/ WorkerLog(w) \/ WorkerHandled(w) \/ WorkerDone(w)

SpecPoolFair == SpecPool /\ \A w \in Workers : WF_vars(WorkerStep(w))

NextUnique ==
    \/ EnsureWhile
    \/ EnsureBody
    \/ EnsureReturn

InitUnique == FwdIdle /\ RemIdle /\ wire = EmptyBag /\ ApiIdle /\ PoolIdle /\ UniqueInit

\* the call runs to its end unhindered: a step that can be taken is taken
SpecUnique == InitUnique /\ [][NextUnique]_vars /\ WF_vars(NextUnique)

(***************************************************************************)
(* Properties of the EventForwarder.                                       *)
(***************************************************************************)
SameEndpoint(a, b) == a.host = b.host /\ a.port = b.port

ReplayCount(e) == CountCalls(wire, LAMBDA c : c.path = "/api/events/{}" /\ c.data.ev = e)
ReplayCountTo(e, api) ==
    CountCalls(wire, LAMBDA c : c.path = "/api/events/{}" /\ c.data.ev = e /\ c.to = api)

ListenerCount == Cardinality({i \in 1..Len(listeners) : listeners[i] = FwdListener})

Quiescent == \A t \in Threads : ~InConnect(t) /\ ~InDisconnect(t)

\* C1: the target set holds at most one entry per (host, port), and a connect
\* of a binding whose (host, port) is already registered stores that binding
\* in place of the old one, leaving the number of targets unchanged.
C1_OneTargetPerEndpoint ==
    /\ [](\A a, b \in targets : SameEndpoint(a[2], b[2]) => a = b)
    /\ [][\A t \in Threads :
            (pc[t] = "c_store" /\ pc'[t] = "idle") =>
                /\ \E it \in targets' : it[2] = argApi[t]
                /\ (\E it \in targets : SameEndpoint(it[2], argApi[t])) =>
                        Cardinality(targets') = Cardinality(targets)]_vars

\* a connect replaced a different binding of the same (host, port)
C1_Witness ==
    /\ last.op = "connect" /\ last.had
    /\ lock = 0
    /\ \E it \in targets : it[2].api_password = "y"

\* C2: once a disconnect has left the target set empty, the forwarder's
\* listener is not registered on the bus, and no replay call is ever made for
\* an event published in that situation.
C2_NoReplayAfterLastDisconnect ==
    /\ emptied => ListenerCount = 0
    /\ \A e \in DOMAIN events : events[e].quiet => ReplayCount(e) = 0

\* an event was published after the last disconnect, and a later connect
\* has registered a target
C2_Witness ==
    \E e \in DOMAIN events :
        events[e].quiet /\ ~ShouldSkip(events[e]) /\ targets # {} /\ lock = 0

\* C3: with n targets registered and no connect or disconnect concurrent with
\* it, the broadcast of one event that passes the filter makes exactly n
\* replay calls, exactly one to each registered target.
C3_OneReplayPerTarget ==
    \A t \in Threads :
        (pc[t] = "l_release" /\ events[argEv[t]].stable) =>
            /\ ReplayCount(argEv[t]) = Cardinality(targets)
            /\ \A it \in targets : ReplayCountTo(argEv[t], it[2]) = 1

\* a broadcast to two targets has finished
C3_Witness ==
    \E t \in Threads :
        pc[t] = "l_release" /\ events[argEv[t]].stable /\ Cardinality(targets) = 2

\* C4: the forwarder's listener is never subscribed twice, and whenever no
\* connect or disconnect is in progress it is subscribed exactly once if the
\* target set is non-empty and not at all if it is empty.
C4_ListenerMatchesTargets ==
    /\ ListenerCount <= 1
    /\ Quiescent => (ListenerCount = 1 <=> targets # {})
    /\ Quiescent => (ListenerCount = 0 <=> targets = {})

\* a disconnect of a binding that was not registered returned while targets
\* were registered
C4_Witness ==
    last.op = "disconnect" /\ ~last.had /\ targets # {} /\ Quiescent

\* C5 as stated: every registered target has been sent a registration call.
C5_ConnectIssuesRegistration ==
    Quiescent =>
        \A it \in targets :
            \E c \in RegistrationCalls : SameEndpoint(c.to, it[2])

\* C5 as amended: connect adds the target and issues no wire call; a
\* registration call is issued only by connect_remote_events, outside any
\* connect or disconnect.
C5_ConnectIssuesNoCall ==
    /\ [][\A t \in Threads :
            (pc[t] = "c_store" /\ pc'[t] = "idle") =>
                /\ \E it \in targets' : it[2] = argApi[t]
                /\ wire' = wire]_vars
    /\ [][wire' # wire => pc' = pc]_vars

\* a connect has returned, its target is registered and no call was issued
C5_Witness ==
    last.op = "connect" /\ Quiescent /\ targets # {} /\ wire = EmptyBag

\* C6: during a broadcast the target set is the one the listener saw when it
\* took the lock: the targets replayed to are among them, and when the loop
\* ends they are exactly them.
C6_BroadcastAtomic ==
    \A t \in Threads :
        pc[t] \in {"l_iter", "l_release"} =>
            /\ targets = snap[t]
            /\ sent[t] \subseteq snap[t]
            /\ pc[t] = "l_release" => sent[t] = snap[t]
            /\ {c.to : c \in ReplayCalls(argEv[t])} = {it[2] : it \in sent[t]}

\* a broadcast to two targets ends, for an event published before a connect
\* or disconnect that ran in between
C6_Witness ==
    \E t \in Threads :
        /\ pc[t] = "l_release"
        /\ ~events[argEv[t]].stable
        /\ Cardinality(snap[t]) = 2

\* the events the listener is to drop
IsFiltered(ev) ==
    \/ ev.type = EVENT_TIME_CHANGED
    \/ (restrict_origin # NoOrigin /\ ev.origin # restrict_origin)

\* C7: the listener replays a time-tick event to no target, and an event of
\* the other origin to no target when an origin restriction is configured; it
\* replays every other event to every currently registered target.
C7_ListenerFilter ==
    /\ \A e \in DOMAIN events : IsFiltered(events[e]) => ReplayCount(e) = 0
    /\ \A t \in Threads :
        /\ pc[t] = "l_skip" => IsFiltered(events[argEv[t]])
        /\ pc[t] \in {"l_iter", "l_release"} => ~IsFiltered(events[argEv[t]])
        /\ pc[t] = "l_release" =>
                \A it \in targets : ReplayCountTo(argEv[t], it[2]) >= 1

\* the listener dropped an event for its origin alone, with targets registered
C7_Witness ==
    \E t \in Threads :
        /\ pc[t] = "l_skip"
        /\ events[argEv[t]].type # EVENT_TIME_CHANGED
        /\ targets # {}

(***************************************************************************)
(* Properties of the remote-backed hub.                                    *)
(***************************************************************************)
FireCalls(e) ==
    CountCalls(wire, LAMBDA c : c.path = "/api/events/{}" /\ c.data.ev = e
                                /\ c.to = RemoteApi /\ c.method = "post")

SetCalls ==
    CountCalls(wire, LAMBDA c : c.path = "/api/states/{}" /\ c.method = "post")

Dispatches(e) == IF e \in BagToSet(dispatched) THEN dispatched[e] ELSE 0

IsLocalNonTick(ev) == ev.origin = OriginLocal /\ ev.type # EVENT_TIME_CHANGED

\* C8: every event given to the remote EventBus.fire takes exactly one of two
\* paths: a LOCAL event that is not the time tick makes exactly one wire call
\* to the bound remote and is not dispatched locally; every other event is
\* dispatched locally once and makes no wire call.
C8_FireRoutes ==
    \A e \in DOMAIN fired :
        IF IsLocalNonTick(fired[e])
        THEN /\ FireCalls(e) = 1
             /\ Dispatches(e) = 0
             /\ \A j \in rjobs : j.ev # e
        ELSE /\ ReplayCount(e) = 0
             /\ Dispatches(e) = 1

\* a local state change went to the wire and a local time tick to the listeners
C8_Witness ==
    \E e, f \in DOMAIN fired :
        /\ fired[e].origin = OriginLocal /\ fired[e].type = EVENT_STATE_CHANGED
        /\ FireCalls(e) = 1
        /\ fired[f].origin = OriginLocal /\ fired[f].type = EVENT_TIME_CHANGED
        /\ Dispatches(f) = 1

\* C9: every StateMachine.set issues one wire write and leaves the cache as it
\* was, whatever the outcome of the write.
C9_SetWritesThrough ==
    /\ [](SetCalls = nSet)
    /\ [][nSet' # nSet => cache' = cache]_vars

\* a set of an entity the cache does not hold was accepted by the remote, and
\* the cache still does not hold it
C9_Witness ==
    /\ nSet > 0
    /\ lastSet = "201"
    /\ \E c \in BagToSet(wire) :
        c.path = "/api/states/{}" /\ c.data.entity_id \notin DOMAIN cache

\* C10 as stated: after mirror() the cached entities are exactly the entities
\* of the response.
C10_MirrorHoldsEveryReturnedEntity ==
    mirrored.kind # "none" => DOMAIN cache = DOMAIN mirrored.body

\* C10 as amended: after mirror(), with no event applied since, the cached
\* entities are exactly the entities of the response whose state dict decodes,
\* each with the state returned; a response that failed, is no JSON or is no
\* dict leaves the cache empty.
C10_MirrorHoldsDecodedEntities ==
    mirrored.kind # "none" =>
        /\ DOMAIN cache =
              {e \in DOMAIN mirrored.body : mirrored.body[e] # Undecodable}
        /\ \A e \in DOMAIN cache : cache[e] = mirrored.body[e]

\* a mirror dropped an entity that was cached before and that the remote did
\* not return, and kept an entity that the remote did return
C10_Witness ==
    /\ mirrored.kind = "dict"
    /\ mirrored.before \ DOMAIN mirrored.body # {}
    /\ DOMAIN cache # {}

\* C11 as stated: while the remote is unreachable, no mirror and no set
\* removes or changes an entry of the cache.
C11_UnreachableKeepsCache ==
    [][(\/ (hpc \in {"ctor_fetch", "run_fetch"} /\ hpc' # hpc /\ resp.kind = "unreachable")
        \/ (nSet' # nSet /\ lastSet' = "unreachable"))
       => \A e \in DOMAIN cache : e \in DOMAIN cache' /\ cache'[e] = cache[e]]_vars

\* C20: the cache changes only when mirror() assigns the decoded response and
\* when the listener applies the new_state of a STATE_CHANGED event of REMOTE
\* origin; no STATE_CHANGED event of LOCAL origin is ever queued for the
\* listener.
C20_CacheFollowsRemoteEventsOnly ==
    /\ [](\A j \in rjobs : /\ fired[j.ev].type = EVENT_STATE_CHANGED
                           /\ fired[j.ev].origin = OriginRemote)
    /\ [][cache' # cache =>
            \/ /\ hpc \in {"ctor_fetch", "run_fetch"}
               /\ hpc' # hpc
               /\ cache' = GetStates(resp)
            \/ \E j \in rjobs :
                /\ rjobs' = rjobs \ {j}
                /\ fired[j.ev].type = EVENT_STATE_CHANGED
                /\ fired[j.ev].origin = OriginRemote
                /\ cache' = MapSet(cache, j.entity_id, j.new_state)]_vars

\* with the listener subscribed, a local state change was fired and queued
\* nothing, and a remote state change was applied to the cache
C20_Witness ==
    /\ subscribed
    /\ rjobs = {}
    /\ \E e \in DOMAIN fired :
        fired[e].type = EVENT_STATE_CHANGED /\ fired[e].origin = OriginLocal
    /\ \E f \in DOMAIN fired :
        /\ fired[f].type = EVENT_STATE_CHANGED /\ fired[f].origin = OriginRemote
        /\ Dispatches(f) = 1
    /\ \E x \in DOMAIN cache : cache[x] = "off"

(***************************************************************************)
(* Properties of the remote binding.                                       *)
(***************************************************************************)
\* the status the wire protocol assigns to an answer of GET /api/
ExpectedStatus(a) ==
    IF a.fail # NoFailure THEN StatusCannotConnect
    ELSE IF a.code = 200 THEN StatusOK
    ELSE IF a.code = 401 THEN StatusInvalidPassword
    ELSE StatusUnknown

\* C12: a validate_api call on a binding that was validated before makes no
\* wire call when force_validate is false, keeps the cached status and returns
\* whether that status is OK; a call with force_validate true makes exactly
\* one wire call and stores the status of its answer.
C12_ValidateMemoizes ==
    lastCall.op = "validate_api" =>
        /\ (lastCall.before # StatusNone /\ ~lastCall.force) =>
                /\ lastCall.made = 0
                /\ status = lastCall.before
                /\ lastCall.ret = "True" <=> lastCall.before = StatusOK
                /\ lastCall.ret = "False" <=> lastCall.before # StatusOK
        /\ lastCall.force =>
                /\ lastCall.made = 1
                /\ status = ExpectedStatus(lastCall.answer)
        /\ lastCall.before = StatusNone => lastCall.made = 1

\* an unforced call on a binding whose cached status is INVALID_PASSWORD
\* made no wire call and returned false
C12_Witness ==
    /\ lastCall.op = "validate_api"
    /\ ~lastCall.force
    /\ lastCall.before = StatusInvalidPassword
    /\ lastCall.made = 0
    /\ lastCall.ret = "False"

\* C13: a validation that asks the remote sets the status to OK for 200, to
\* INVALID_PASSWORD for 401, to UNKNOWN for any other status code and to
\* CANNOT_CONNECT for a connection failure; validate_api raises nothing and
\* returns true exactly when the status is OK.
C13_ValidationStatus ==
    lastCall.op = "validate_api" =>
        /\ lastCall.made = 1 => status = ExpectedStatus(lastCall.answer)
        /\ lastCall.raised = NoException
        /\ lastCall.ret = "True" <=> status = StatusOK
        /\ lastCall.ret = "False" <=> status # StatusOK

\* a 401 made validate_api return false with status INVALID_PASSWORD
C13_Witness ==
    /\ lastCall.op = "validate_api"
    /\ lastCall.answer.code = 401
    /\ status = StatusInvalidPassword
    /\ lastCall.ret = "False"

\* C14: the constructor raises HomeAssistantError exactly when the binding's
\* status after its validation is not OK; then no part of the hub exists,
\* StateMachine.__init__ was not entered, and the constructor made no wire
\* call but at most the one of the validation.
C14_InvalidBindingRaises ==
    /\ [](lastCall.op = "HomeAssistant" =>
            /\ status # StatusOK <=> lastCall.raised = "HomeAssistantError"
            /\ status # StatusOK <=> hpc = "raised"
            /\ status = StatusOK <=> built = HubParts
            /\ hpc = "raised" => built = {} /\ ~subscribed /\ cache = EmptyMap)
    /\ [][(lastCall'.op = "HomeAssistant" /\ nApi' # nApi /\ status' # StatusOK) =>
            /\ wire' \in {wire, Issue(wire, ValidateCall(RemoteApi))}
            /\ built' = {}
            /\ hpc' = "raised"]_vars

\* a construction with a binding the remote answered with 401 has raised
C14_Witness ==
    /\ lastCall.op = "HomeAssistant"
    /\ lastCall.answer.code = 401
    /\ lastCall.raised = "HomeAssistantError"
    /\ hpc = "raised"
    /\ built = {}

\* C15: API.__call__ turns every transport failure into HomeAssistantError,
\* and none of remote EventBus.fire, remote StateMachine.set, the forwarder's
\* replay, call_service, connect_remote_events and disconnect_remote_events
\* lets an exception reach its caller.
C15_TransportFailuresSwallowed ==
    /\ lastCall.answer.fail # NoFailure =>
            ApiCallRaises(lastCall.answer) = "HomeAssistantError"
    /\ lastCall.op \in WriteOps => lastCall.raised = NoException

\* a remote EventBus.fire whose request failed in DNS returned normally
C15_Witness ==
    /\ lastCall.op = "EventBus.fire"
    /\ lastCall.answer.fail = "dns_failure"
    /\ lastCall.raised = NoException

\* the body does not have the structure the read operation expects
IsMalformed(op, body) ==
    \/ body \in {"badjson", "nondict"}
    \/ body = "nokey" /\ op # "get_states"

\* C16 as stated: a read operation whose response body is malformed JSON or
\* JSON of the wrong structure returns its 'no data' result and raises
\* nothing.
C16_DecodeFailureIsNoData ==
    (lastCall.op \in ReadOps /\ IsMalformed(lastCall.op, lastCall.answer.body)) =>
        /\ lastCall.raised = NoException
        /\ lastCall.ret = IF lastCall.op = "get_state" THEN "None" ELSE "{}"

(***************************************************************************)
(* Properties of the ThreadPool.                                           *)
(***************************************************************************)
RECURSIVE Pow2(_)
Pow2(k) == IF k = 0 THEN 1 ELSE 2 * Pow2(k - 1)

\* the jobs in the queue
Queued == {work_queue[i].item : i \in DOMAIN work_queue}

Invocations == {i \in DOMAIN busy : busy[i].result = "invoked"}

\* C17 as stated: each get returns a job that no queued job precedes by
\* priority, and jobs of equal priority are taken in the order of their
\* submission.
C17_PriorityThenFifo ==
    /\ [][taken' # taken =>
            \A i \in DOMAIN work_queue :
                submitted[taken'[Len(taken')]] <= work_queue[i].priority]_vars
    /\ [](\A i, k \in DOMAIN taken :
            (i < k /\ submitted[taken[i]] = submitted[taken[k]]) => taken[i] < taken[k])

C23_DisconnectReturnsRemoved ==
    last.op = "disconnect" => (last.ret <=> last.had)

\* C24: the registration request of connect_remote_events(from_api, to_api)
\* names the target to_api by host and port and carries to_api's password:
\* every registration call on the wire carries the credentials of one of the
\* bindings it can have been made for.
C24_RegistrationCarriesTargetPassword ==
    \A c \in RegistrationCalls :
        \E to_api \in APIs :
            /\ c.data.host = to_api.host
            /\ c.data.port = to_api.port
            /\ c.data.api_password = to_api.api_password

\* the first of preferred_string, preferred_string_2, preferred_string_3, ...
\* that is not in current_strings, among the strings of the model
FirstFree(preferred, current) ==
    LET free == {k \in 1..MaxTries : Format(preferred, k) \notin current} IN
    IF free = {} THEN NoString
    ELSE Format(preferred, CHOOSE k \in free : \A l \in free : k <= l)

\* C25: ensure_unique_string returns for every input, and what it returns is
\* not in current_strings: preferred_string when that is free, else
\* preferred_string with the first free suffix _2, _3, ...
C25_EnsureUniqueTerminates ==
    /\ <>(upc = "done")
    /\ [](upc = "done" =>
            /\ returned \notin current_strings
            /\ FirstFree(preferred_string, current_strings) # NoString =>
                    returned = FirstFree(preferred_string, current_strings))

\* C22: no remote state change is lost: a state-changed event for an entity
\* that arrives after the last bulk read was made (between the
\* constructor's read and its subscription, or while a later mirror() is
\* under way) is not older than anything the read returned, so once the
\* mirror and the queued events have been applied the cache holds the state
\* the event carried.
C22_NoRemoteChangeLost ==
    (hpc = "run" /\ rjobs = {}) =>
        \A e \in Entities :
            newest[e] \in States => (e \in DOMAIN cache /\ cache[e] = newest[e])

\* the workers whose job is in the list: between current_jobs.append and
\* current_jobs.remove, the handler running or just returned
Logged == {w \in Workers : wpc[w] \in {"handle", "remove"}}

\* the number of times job_handler has been called with job j: once for
\* each time a worker got j from the queue, but for a worker that has not
\* reached the call yet
HandlerCalls(j) ==
    Cardinality({i \in DOMAIN taken : taken[i] = j})
        - Cardinality({w \in Workers : wpc[w] = "log" /\ wjob[w] = j})

\* the handler has been called with j and the worker is through with it
HasRun(j) == HandlerCalls(j) = 1 /\ \A w \in Workers : wjob[w] # j

====
